---- MODULE Spec2Model ----
(***************************************************************************)
(* Model of the affine-transformation kernel of cgmath-rs:                 *)
(*   src/src/cgmath/transform.rs  Transform, Decomposed, AffineMatrix3,    *)
(*                                Transform3D, Transform3DIntermediate     *)
(*   src/src/math/point.rs        Point2::rotate_z                         *)
(*                                                                         *)
(* Scalars (S: Float) are exact rationals <<n, d>> in lowest terms with    *)
(* d > 0; <<1, 0>>, <<-1, 0>> and <<0, 0>> stand for +inf, -inf and NaN,   *)
(* the values IEEE division by zero produces.  Vectors and points are      *)
(* triples of scalars, quaternions are records [s, v], matrices are        *)
(* tuples of columns (column major, as Mat3/Mat4 are).                     *)
(***************************************************************************)
EXTENDS Integers, Sequences, FiniteSets, TLC

VARIABLES
    t,        \* the caller's Decomposed<S, Vec3<S>, Quat<S>> (transform.rs:69-73, 198)
    other,    \* the second Decomposed, argument of concat / concat_self (transform.rs:103)
    prev,     \* value of t before the last call that assigns it
    ret,      \* value returned by the last call
    pt,       \* the point / vector / angle argument of the last call
    am,       \* the caller's AffineMatrix3 (transform.rs:155-157)
    im,       \* the live Transform3DIntermediate of the builder (transform.rs:242-246)
    p2,       \* the Point2 receiver of rotate_z (point.rs:49)
    calls     \* names of the methods called so far, oldest first

vars == <<t, other, prev, ret, pt, am, im, p2, calls>>

-----------------------------------------------------------------------------
(* Bounds *)

MaxCoord == 1

MaxChain == 3

-----------------------------------------------------------------------------
(* Scalar arithmetic *)

Abs(n) == IF n < 0 THEN -n ELSE n

RECURSIVE Gcd(_, _)
Gcd(a, b) == IF b = 0 THEN a ELSE Gcd(b, a % b)

Norm(n, d) ==
    LET g == Gcd(Abs(n), Abs(d))
    IN  IF g = 0 THEN <<0, 0>>
        ELSE IF d < 0 THEN <<(-n) \div g, (-d) \div g>>
        ELSE <<n \div g, d \div g>>

Rat(n) == <<n, 1>>

zero == Rat(0)

one == Rat(1)

add(a, b) ==
    IF a[2] = 1 /\ b[2] = 1 THEN <<a[1] + b[1], 1>>
    ELSE LET g == Gcd(a[2], b[2])
         IN  IF g = 0 THEN Norm(a[1] * b[2] + b[1] * a[2], a[2] * b[2])
             ELSE Norm(a[1] * (b[2] \div g) + b[1] * (a[2] \div g), (a[2] \div g) * b[2])

neg(a) == <<-a[1], a[2]>>

sub(a, b) == add(a, neg(b))

mul(a, b) ==
    IF a[2] = 1 /\ b[2] = 1 THEN <<a[1] * b[1], 1>>
    ELSE LET g1 == Gcd(Abs(a[1]), b[2])
             g2 == Gcd(Abs(b[1]), a[2])
         IN  IF g1 = 0 \/ g2 = 0 THEN Norm(a[1] * b[1], a[2] * b[2])
             ELSE Norm((a[1] \div g1) * (b[1] \div g2), (a[2] \div g2) * (b[2] \div g1))

div(a, b) == mul(a, Norm(b[2], b[1]))

abs(a) == <<Abs(a[1]), a[2]>>

lt(a, b) == a[2] # 0 /\ b[2] # 0 /\ sub(a, b)[1] < 0

approx_epsilon == <<1, 100000>>

approx_eq(a, b) == lt(abs(sub(a, b)), approx_epsilon)

-----------------------------------------------------------------------------
(* Vec3 / Point3 / Vec4 *)

Vec3(x, y, z) == <<x, y, z>>

vec_zero == Vec3(zero, zero, zero)

vec_add_v(a, b) == <<add(a[1], b[1]), add(a[2], b[2]), add(a[3], b[3])>>

vec_mul_s(a, s) == <<mul(a[1], s), mul(a[2], s), mul(a[3], s)>>

cross(a, b) ==
    <<sub(mul(a[2], b[3]), mul(a[3], b[2])),
      sub(mul(a[3], b[1]), mul(a[1], b[3])),
      sub(mul(a[1], b[2]), mul(a[2], b[1]))>>

extend(a, w) == <<a[1], a[2], a[3], w>>

truncate(a) == <<a[1], a[2], a[3]>>

origin == Vec3(zero, zero, zero)

from_vec(v) == v

to_vec(p) == p

point_mul_s(p, s) == <<mul(p[1], s), mul(p[2], s), mul(p[3], s)>>

point_add_v(p, v) == <<add(p[1], v[1]), add(p[2], v[2]), add(p[3], v[3])>>

to_homogeneous(p) == extend(p, one)

from_homogeneous(v) == vec_mul_s(truncate(v), div(one, v[4]))

-----------------------------------------------------------------------------
(* Quat: the Rotation3 used by Transform3D.  Unit quaternions only. *)

Quat(s, x, y, z) == [s |-> s, v |-> Vec3(x, y, z)]

dot(a, b) == add(add(mul(a[1], b[1]), mul(a[2], b[2])), mul(a[3], b[3]))

quat_identity == Quat(one, zero, zero, zero)

quat_mul_v(q, vec) ==
    LET tmp == vec_add_v(cross(q.v, vec), vec_mul_s(vec, q.s))
    IN  vec_add_v(vec_mul_s(cross(q.v, tmp), Rat(2)), vec)

quat_mul_q(a, b) ==
    [s |-> sub(mul(a.s, b.s), dot(a.v, b.v)),
     v |-> vec_add_v(vec_add_v(vec_mul_s(b.v, a.s), vec_mul_s(a.v, b.s)),
                     cross(a.v, b.v))]

quat_conjugate(q) == [s |-> q.s, v |-> vec_mul_s(q.v, Rat(-1))]

rotate_vec(rot, vec) == quat_mul_v(rot, vec)

rotate_point(rot, point) == from_vec(rotate_vec(rot, to_vec(point)))

rot_concat(rot, o) == quat_mul_q(rot, o)

rot_invert(rot) == quat_conjugate(rot)

to_mat3(q) ==
    LET x == q.v[1]
        y == q.v[2]
        z == q.v[3]
        s == q.s
        x2 == add(x, x)
        y2 == add(y, y)
        z2 == add(z, z)
        xx2 == mul(x2, x)
        xy2 == mul(x2, y)
        xz2 == mul(x2, z)
        yy2 == mul(y2, y)
        yz2 == mul(y2, z)
        zz2 == mul(z2, z)
        sy2 == mul(y2, s)
        sz2 == mul(z2, s)
        sx2 == mul(x2, s)
    IN  <<Vec3(sub(sub(one, yy2), zz2), add(xy2, sz2), sub(xz2, sy2)),
          Vec3(sub(xy2, sz2), sub(sub(one, xx2), zz2), add(yz2, sx2)),
          Vec3(add(xz2, sy2), sub(yz2, sx2), sub(sub(one, xx2), yy2))>>

-----------------------------------------------------------------------------
(* Mat3 / Mat4, column major: m[1] .. m[4] are the columns x, y, z, w *)

mat3_mul_s(m, s) == <<vec_mul_s(m[1], s), vec_mul_s(m[2], s), vec_mul_s(m[3], s)>>

mat3_to_mat4(m) ==
    <<extend(m[1], zero), extend(m[2], zero), extend(m[3], zero),
      <<zero, zero, zero, one>>>>

vec4_add(a, b) == [i \in 1..4 |-> add(a[i], b[i])]

vec4_mul_s(a, s) == [i \in 1..4 |-> mul(a[i], s)]

mat4_mul_v(m, v) ==
    vec4_add(vec4_add(vec4_mul_s(m[1], v[1]), vec4_mul_s(m[2], v[2])),
             vec4_add(vec4_mul_s(m[3], v[3]), vec4_mul_s(m[4], v[4])))

mat4_mul_m(a, b) ==
    <<mat4_mul_v(a, b[1]), mat4_mul_v(a, b[2]), mat4_mul_v(a, b[3]), mat4_mul_v(a, b[4])>>

Mat4_identity ==
    <<<<one, zero, zero, zero>>, <<zero, one, zero, zero>>,
      <<zero, zero, one, zero>>, <<zero, zero, zero, one>>>>

Mat4_translate(x, y, z) ==
    <<<<one, zero, zero, zero>>, <<zero, one, zero, zero>>,
      <<zero, zero, one, zero>>, <<x, y, z, one>>>>

Mat4_scale(x, y, z) ==
    <<<<x, zero, zero, zero>>, <<zero, y, zero, zero>>,
      <<zero, zero, z, zero>>, <<zero, zero, zero, one>>>>

-----------------------------------------------------------------------------
(* Transform for Decomposed<S, V, R> *)

Decomposed(scale, rot, disp) == [scale |-> scale, rot |-> rot, disp |-> disp]

None == [some |-> FALSE]

Some(x) == [some |-> TRUE, val |-> x]

\* variant: the scale starts at num::zero() like the displacement
identity_zero_scale == Decomposed(zero, quat_identity, vec_zero)

identity == Decomposed(one, quat_identity, vec_zero)

\* variant: the displacement is added to a vector as it is to a point
transform_vec_displaced(self, vec) ==
    vec_add_v(rotate_vec(self.rot, vec_mul_s(vec, self.scale)), self.disp)

transform_vec(self, vec) == rotate_vec(self.rot, vec_mul_s(vec, self.scale))

transform_point(self, point) ==
    point_add_v(rotate_point(self.rot, point_mul_s(point, self.scale)), self.disp)

transform_as_point(self, vec) == to_vec(transform_point(self, from_vec(vec)))

\* variant: the rotations are concatenated in the opposite order
concat_rot_swapped(self, o) ==
    Decomposed(mul(self.scale, o.scale),
               rot_concat(o.rot, self.rot),
               transform_as_point(self, o.disp))

concat(self, o) ==
    Decomposed(mul(self.scale, o.scale),
               rot_concat(self.rot, o.rot),
               transform_as_point(self, o.disp))

\* variant: the displacement is scaled by s, not by -s
invert_unsigned(self) ==
    IF approx_eq(self.scale, zero)
    THEN None
    ELSE LET s == div(one, self.scale)
             r == rot_invert(self.rot)
             d == vec_mul_s(rotate_vec(r, self.disp), s)
         IN  Some(Decomposed(s, r, d))

\* variant: the scale is compared with zero exactly
invert_exact_zero(self) ==
    IF self.scale = zero
    THEN None
    ELSE LET s == div(one, self.scale)
             r == rot_invert(self.rot)
             d == vec_mul_s(rotate_vec(r, self.disp), neg(s))
         IN  Some(Decomposed(s, r, d))

invert(self) ==
    IF approx_eq(self.scale, zero)
    THEN None
    ELSE LET s == div(one, self.scale)
             r == rot_invert(self.rot)
             d == vec_mul_s(rotate_vec(r, self.disp), neg(s))
         IN  Some(Decomposed(s, r, d))

\* variant: the rotation matrix is not multiplied by the scale
to_mat4_unscaled(self) ==
    LET m == mat3_to_mat4(to_mat3(self.rot))
    IN  [m EXCEPT ![4] = extend(self.disp, one)]

to_mat4(self) ==
    LET m == mat3_to_mat4(mat3_mul_s(to_mat3(self.rot), self.scale))
    IN  [m EXCEPT ![4] = extend(self.disp, one)]

-----------------------------------------------------------------------------
(* Transform for AffineMatrix3<S> *)

AffineMatrix3(mat) == [mat |-> mat]

AffineMatrix3_identity == AffineMatrix3(Mat4_identity)

AffineMatrix3_transform_vec(self, vec) == truncate(mat4_mul_v(self.mat, extend(vec, zero)))

AffineMatrix3_transform_point(self, point) ==
    from_homogeneous(mat4_mul_v(self.mat, to_homogeneous(point)))

-----------------------------------------------------------------------------
(* Transform3D builder *)

Transform3DIntermediate(mat, decomposed) == [mat |-> mat, decomposed |-> decomposed]

get(self) == self

Transform3D_translate(self) ==
    LET d == get(self)
    IN  Transform3DIntermediate(Mat4_translate(d.disp[1], d.disp[2], d.disp[3]), d)

Transform3D_scale(self) ==
    LET d == get(self)
    IN  Transform3DIntermediate(Mat4_scale(d.scale, d.scale, d.scale), d)

Transform3D_rotate(self) ==
    LET d == get(self)
    IN  Transform3DIntermediate(mat3_to_mat4(to_mat3(d.rot)), d)

\* variant: the step matrix is multiplied on the right
Intermediate_translate_right(self) ==
    Transform3DIntermediate(
        mat4_mul_m(self.mat, Mat4_translate(self.decomposed.disp[1],
                                            self.decomposed.disp[2],
                                            self.decomposed.disp[3])),
        self.decomposed)

Intermediate_translate(self) ==
    Transform3DIntermediate(
        mat4_mul_m(Mat4_translate(self.decomposed.disp[1],
                                  self.decomposed.disp[2],
                                  self.decomposed.disp[3]), self.mat),
        self.decomposed)

\* variant: the step matrix is multiplied on the right
Intermediate_scale_right(self) ==
    Transform3DIntermediate(
        mat4_mul_m(self.mat, Mat4_scale(self.decomposed.scale,
                                        self.decomposed.scale,
                                        self.decomposed.scale)),
        self.decomposed)

Intermediate_scale(self) ==
    Transform3DIntermediate(
        mat4_mul_m(Mat4_scale(self.decomposed.scale,
                              self.decomposed.scale,
                              self.decomposed.scale), self.mat),
        self.decomposed)

Intermediate_rotate(self) ==
    Transform3DIntermediate(
        mat4_mul_m(mat3_to_mat4(to_mat3(self.decomposed.rot)), self.mat),
        self.decomposed)

Intermediate_to_mat4(self) == self.mat

-----------------------------------------------------------------------------
(* Point2 (src/src/math/point.rs) *)

Point2(x, y) == <<x, y>>

\* cos and sin of a whole number of radians, rounded to thousandths
cos(a) ==
    LET n == Abs(a[1])
    IN  CASE n = 0 -> Rat(1)
          [] n = 1 -> Norm(540, 1000)
          [] n = 2 -> Norm(-416, 1000)
          [] n = 3 -> Norm(-990, 1000)
          [] OTHER -> Norm(-654, 1000)

sin(a) ==
    LET n == Abs(a[1])
        m == CASE n = 0 -> Rat(0)
               [] n = 1 -> Norm(841, 1000)
               [] n = 2 -> Norm(909, 1000)
               [] n = 3 -> Norm(141, 1000)
               [] OTHER -> Norm(-757, 1000)
    IN  IF a[1] < 0 THEN neg(m) ELSE m

rotate_z(self, radians) == Point2(mul(cos(self[1]), radians), mul(sin(self[2]), radians))

-----------------------------------------------------------------------------
(* Inputs *)

Coords == (-MaxCoord)..MaxCoord

tiny == <<1, 200000>>

Scales == {zero, tiny, one, Rat(2), <<-1, 2>>}

Rots == {quat_identity,
         Quat(zero, one, zero, zero),
         Quat(<<1, 2>>, <<1, 2>>, <<1, 2>>, <<1, 2>>)}

Disps == {vec_zero, Vec3(one, zero, zero), Vec3(Rat(-1), Rat(2), Rat(3))}

Decomposeds == {Decomposed(s, r, d) : s \in Scales, r \in Rots, d \in Disps}

Others == {Decomposed(s, r, d) : s \in Scales \ {tiny}, r \in Rots, d \in Disps}

Points == {Vec3(Rat(x), Rat(y), Rat(z)) : x \in Coords, y \in Coords, z \in Coords}

Point2s == {Point2(Rat(x), Rat(y)) : x \in Coords, y \in Coords}

Angles == {zero, one, Rat(2)}

Constructors == {"identity", "AffineMatrix3::identity", "AffineMatrix3::from"}

Last == calls[Len(calls)]

\* a caller applies a transform right after construction or after one constructor call
CanApply == calls = <<>> \/ (Len(calls) = 1 /\ calls[1] \in Constructors)

-----------------------------------------------------------------------------
(* State after construction: Transform3D::new(scale, rot, disp) for t and    *)
(* other, AffineMatrix3::identity() for am, Point2::origin() for p2.         *)

Init ==
    /\ t \in Decomposeds
    /\ other \in Others
    /\ prev = t
    /\ ret = None
    /\ pt = origin
    /\ am = AffineMatrix3_identity
    /\ im = None
    /\ p2 = Point2(zero, zero)
    /\ calls = <<>>

InitApply ==
    /\ Init
    /\ other = identity

InitBuilder ==
    /\ Init
    /\ t \in Others
    /\ other = identity

-----------------------------------------------------------------------------
(* Composition and inversion of Decomposed (Transform trait) *)

do_concat ==
    /\ calls = <<>>
    /\ ret' = concat(t, other)
    /\ calls' = <<"concat">>
    /\ UNCHANGED <<t, other, prev, pt, am, im, p2>>

do_invert ==
    /\ calls = <<>>
    /\ ret' = invert(t)
    /\ calls' = <<"invert">>
    /\ UNCHANGED <<t, other, prev, pt, am, im, p2>>

\* variant: other.concat(self) is stored
concat_self_reversed ==
    /\ calls = <<>>
    /\ t' = concat(other, t)
    /\ prev' = t
    /\ calls' = <<"concat_self">>
    /\ UNCHANGED <<other, ret, pt, am, im, p2>>

concat_self ==
    /\ calls = <<>>
    /\ t' = concat(t, other)
    /\ prev' = t
    /\ calls' = <<"concat_self">>
    /\ UNCHANGED <<other, ret, pt, am, im, p2>>

invert_self ==
    /\ calls = <<>>
    /\ LET r == invert(t)
       IN  IF r.some
           THEN t' = r.val /\ ret' = TRUE
           ELSE t' = t /\ ret' = FALSE
    /\ prev' = t
    /\ calls' = <<"invert_self">>
    /\ UNCHANGED <<other, pt, am, im, p2>>

Next == do_concat \/ do_invert \/ concat_self \/ invert_self

Spec == Init /\ [][Next]_vars

-----------------------------------------------------------------------------
(* Applying transforms; identity; Decomposed -> AffineMatrix3 *)

do_identity ==
    /\ calls = <<>>
    /\ t' = identity
    /\ prev' = t
    /\ calls' = <<"identity">>
    /\ UNCHANGED <<other, ret, pt, am, im, p2>>

do_AffineMatrix3_identity ==
    /\ calls = <<>>
    /\ am' = AffineMatrix3_identity
    /\ calls' = <<"AffineMatrix3::identity">>
    /\ UNCHANGED <<t, other, prev, ret, pt, im, p2>>

do_to_mat4 ==
    /\ calls = <<>>
    /\ am' = AffineMatrix3(to_mat4(t))
    /\ calls' = <<"AffineMatrix3::from">>
    /\ UNCHANGED <<t, other, prev, ret, pt, im, p2>>

do_transform_point(point) ==
    /\ CanApply
    /\ pt' = point
    /\ ret' = transform_point(t, point)
    /\ calls' = Append(calls, "transform_point")
    /\ UNCHANGED <<t, other, prev, am, im, p2>>

do_transform_vec(vec) ==
    /\ CanApply
    /\ pt' = vec
    /\ ret' = transform_vec(t, vec)
    /\ calls' = Append(calls, "transform_vec")
    /\ UNCHANGED <<t, other, prev, am, im, p2>>

do_AffineMatrix3_transform_point(point) ==
    /\ CanApply
    /\ pt' = point
    /\ ret' = AffineMatrix3_transform_point(am, point)
    /\ calls' = Append(calls, "AffineMatrix3::transform_point")
    /\ UNCHANGED <<t, other, prev, am, im, p2>>

do_AffineMatrix3_transform_vec(vec) ==
    /\ CanApply
    /\ pt' = vec
    /\ ret' = AffineMatrix3_transform_vec(am, vec)
    /\ calls' = Append(calls, "AffineMatrix3::transform_vec")
    /\ UNCHANGED <<t, other, prev, am, im, p2>>

do_rotate_z(point, radians) ==
    /\ CanApply
    /\ p2' = point
    /\ pt' = radians
    /\ ret' = rotate_z(point, radians)
    /\ calls' = Append(calls, "rotate_z")
    /\ UNCHANGED <<t, other, prev, am, im>>

NextApply ==
    \/ do_identity
    \/ do_AffineMatrix3_identity
    \/ do_to_mat4
    \/ \E point \in Points : do_transform_point(point)
    \/ \E vec \in Points : do_transform_vec(vec)
    \/ \E point \in Points : do_AffineMatrix3_transform_point(point)
    \/ \E vec \in Points : do_AffineMatrix3_transform_vec(vec)
    \/ \E point \in Point2s, radians \in Angles : do_rotate_z(point, radians)

SpecApply == InitApply /\ [][NextApply]_vars

-----------------------------------------------------------------------------
(* Transform3D builder: the first step borrows t, every later step extends *)
(* the live intermediate.                                                  *)

translate ==
    /\ Len(calls) < MaxChain
    /\ im' = IF calls = <<>> THEN Transform3D_translate(t) ELSE Intermediate_translate(im)
    /\ calls' = Append(calls, "translate")
    /\ UNCHANGED <<t, other, prev, ret, pt, am, p2>>

scale ==
    /\ Len(calls) < MaxChain
    /\ im' = IF calls = <<>> THEN Transform3D_scale(t) ELSE Intermediate_scale(im)
    /\ calls' = Append(calls, "scale")
    /\ UNCHANGED <<t, other, prev, ret, pt, am, p2>>

rotate ==
    /\ Len(calls) < MaxChain
    /\ im' = IF calls = <<>> THEN Transform3D_rotate(t) ELSE Intermediate_rotate(im)
    /\ calls' = Append(calls, "rotate")
    /\ UNCHANGED <<t, other, prev, ret, pt, am, p2>>

NextBuilder == translate \/ scale \/ rotate

SpecBuilder == InitBuilder /\ [][NextBuilder]_vars

-----------------------------------------------------------------------------
(* Properties of Decomposed::concat and Decomposed::invert, under Spec *)

\* C1: a.concat(b) applies b first and then a: it maps every point p to
\* a.transform_point(b.transform_point(p)) and every vector v to
\* a.transform_vec(b.transform_vec(v)); its translation is b.disp taken through a
\* as a point (scaled, rotated, then displaced by a.disp), its scale is
\* a.scale * b.scale and its rotation is a.rot.concat(b.rot).
C1_ConcatAppliesOtherFirst ==
    calls = <<"concat">> =>
        /\ \A p \in Points :
               transform_point(ret, p) = transform_point(t, transform_point(other, p))
        /\ \A v \in Points :
               transform_vec(ret, v) = transform_vec(t, transform_vec(other, v))
        /\ ret.disp = vec_add_v(rotate_vec(t.rot, vec_mul_s(other.disp, t.scale)), t.disp)
        /\ ret.scale = mul(t.scale, other.scale)
        /\ ret.rot = quat_mul_q(t.rot, other.rot)

C1_Witness ==
    /\ calls = <<"concat">>
    /\ t.scale = Rat(2)
    /\ other.disp = Vec3(Rat(-1), Rat(2), Rat(3))
    /\ t.disp = Vec3(one, zero, zero)
    /\ quat_mul_q(t.rot, other.rot) # quat_mul_q(other.rot, t.rot)
    /\ ret.disp \notin {t.disp, other.disp, vec_add_v(t.disp, other.disp)}

IsIdentity(d) == d.scale = one /\ d.rot = quat_identity /\ d.disp = vec_zero

\* C2: when the scale of t is not approximately zero, t.invert() is Some(i) and
\* both t.concat(i) and i.concat(t) have scale 1, the identity rotation and zero
\* translation, so each maps every point p to p.
C2_InverseRoundTrip ==
    (calls = <<"invert">> /\ ~approx_eq(t.scale, zero)) =>
        /\ ret.some
        /\ LET left == concat(t, ret.val)
               right == concat(ret.val, t)
           IN  /\ IsIdentity(left)
               /\ IsIdentity(right)
               /\ \A p \in Points :
                      /\ transform_point(left, p) = p
                      /\ transform_point(right, p) = p

C2_Witness ==
    /\ calls = <<"invert">>
    /\ ret.some
    /\ t.scale = <<-1, 2>>
    /\ t.rot = Quat(<<1, 2>>, <<1, 2>>, <<1, 2>>, <<1, 2>>)
    /\ t.disp = Vec3(Rat(-1), Rat(2), Rat(3))
    /\ ret.val.disp # vec_zero

\* C3: invert returns None exactly when the scale is approximately zero (nothing
\* is divided then); otherwise it returns Some of the transform with scale
\* 1/scale, rotation rot.invert() and translation
\* rot.invert().rotate_vec(disp) * -(1/scale).
C3_InvertNoneIffScaleApproxZero ==
    calls = <<"invert">> =>
        /\ ret = None <=> lt(abs(t.scale), approx_epsilon)
        /\ ret.some =>
               /\ mul(ret.val.scale, t.scale) = one
               /\ ret.val.scale = div(one, t.scale)
               /\ ret.val.rot = quat_conjugate(t.rot)
               /\ ret.val.disp =
                      vec_mul_s(quat_mul_v(quat_conjugate(t.rot), t.disp),
                                neg(div(one, t.scale)))

C3_Witness ==
    /\ calls = <<"invert">>
    /\ t.scale = tiny
    /\ t.disp # vec_zero
    /\ ret = None

\* C4: invert_self returns false and leaves the transform as it was exactly when
\* invert() is None, and otherwise returns true and stores the value invert()
\* returned; concat_self(other) stores concat(other); neither touches other.
C4_MutatingFormsAreSugar ==
    [][/\ calls' = <<"invert_self">> =>
              IF invert(t).some
              THEN ret' = TRUE /\ t' = invert(t).val
              ELSE ret' = FALSE /\ t' = t
       /\ calls' = <<"concat_self">> => t' = concat(t, other)
       /\ calls' \in {<<"invert_self">>, <<"concat_self">>} =>
              other' = other /\ prev' = t]_vars

C4_Witness ==
    /\ calls = <<"invert_self">>
    /\ ret = FALSE
    /\ t.scale = tiny
    /\ t.disp # vec_zero
    /\ t = prev

-----------------------------------------------------------------------------
(* Properties of applying transforms, under SpecApply *)

\* C5: transform_point maps the origin to the point with the coordinates of disp,
\* whatever the scale and rotation; transform_vec maps the zero vector to itself
\* and its result is the same for every disp.
C5_PointVectorAsymmetry ==
    /\ (Len(calls) > 0 /\ Last = "transform_point" /\ pt = origin) => ret = t.disp
    /\ (Len(calls) > 0 /\ Last = "transform_vec") =>
           /\ pt = vec_zero => ret = vec_zero
           /\ \A d \in Disps : transform_vec([t EXCEPT !.disp = d], pt) = ret

C5_Witness ==
    /\ calls = <<"transform_point">>
    /\ t = Decomposed(Rat(2), quat_identity, Vec3(one, zero, zero))
    /\ pt = origin
    /\ ret = Vec3(one, zero, zero)

\* C6: identity() of Decomposed has scale 1, the identity rotation and zero
\* translation, identity() of AffineMatrix3 holds the identity matrix, and each
\* maps every point and every vector to itself.
C6_IdentityIsNeutral ==
    /\ (Len(calls) > 0 /\ calls[1] = "identity") =>
           /\ t.scale = one /\ t.rot = quat_identity /\ t.disp = vec_zero
           /\ Last \in {"transform_point", "transform_vec"} => ret = pt
    /\ (Len(calls) > 0 /\ calls[1] = "AffineMatrix3::identity") =>
           /\ am.mat = Mat4_identity
           /\ Last \in {"AffineMatrix3::transform_point", "AffineMatrix3::transform_vec"}
                  => ret = pt

C6_Witness ==
    /\ calls = <<"identity", "transform_point">>
    /\ prev = Decomposed(Rat(2), Quat(zero, one, zero, zero), Vec3(one, zero, zero))
    /\ pt = Vec3(one, Rat(-1), one)
    /\ ret = pt

\* C7: the AffineMatrix3 that holds d.to_mat4() maps every point and every vector
\* as d does; to_mat4 is the rotation's 3x3 matrix times the scale, extended to
\* 4x4, with last column (disp, 1).
C7_ToMat4AgreesWithDecomposed ==
    (Len(calls) > 0 /\ calls[1] = "AffineMatrix3::from") =>
        /\ \A i \in 1..3 : am.mat[i] = extend(vec_mul_s(to_mat3(t.rot)[i], t.scale), zero)
        /\ am.mat[4] = extend(t.disp, one)
        /\ Last = "AffineMatrix3::transform_point" => ret = transform_point(t, pt)
        /\ Last = "AffineMatrix3::transform_vec" => ret = transform_vec(t, pt)

C7_Witness ==
    /\ calls = <<"AffineMatrix3::from", "AffineMatrix3::transform_point">>
    /\ t = Decomposed(<<-1, 2>>, Quat(<<1, 2>>, <<1, 2>>, <<1, 2>>, <<1, 2>>),
                      Vec3(Rat(-1), Rat(2), Rat(3)))
    /\ pt = Vec3(one, Rat(-1), zero)
    /\ ret \notin {pt, t.disp}

Dist2(p) == add(mul(p[1], p[1]), mul(p[2], p[2]))

\* C9: rotate_z(radians) rotates the point about the origin by the angle:
\* rotate_z(0) is the point itself and every result is as far from the origin as
\* the point.
C9_RotateZRotates ==
    (Len(calls) > 0 /\ Last = "rotate_z") =>
        /\ pt = zero => ret = p2
        /\ Dist2(ret) = Dist2(p2)

-----------------------------------------------------------------------------
(* Properties of the Transform3D builder, under SpecBuilder *)

StepMat(d, step) ==
    CASE step = "translate" -> Mat4_translate(d.disp[1], d.disp[2], d.disp[3])
      [] step = "scale" -> Mat4_scale(d.scale, d.scale, d.scale)
      [] step = "rotate" -> mat3_to_mat4(to_mat3(d.rot))

RECURSIVE ChainMat(_, _)
ChainMat(d, steps) ==
    IF Len(steps) = 1
    THEN StepMat(d, steps[1])
    ELSE mat4_mul_m(StepMat(d, steps[Len(steps)]),
                    ChainMat(d, SubSeq(steps, 1, Len(steps) - 1)))

\* C8: every builder step multiplies its own matrix onto the left of the matrix
\* built so far, so translate().scale() and scale().translate() give different
\* matrices exactly when the translation is not zero and the scale is not 1.
C8_BuilderOrderSensitive ==
    /\ calls # <<>> => Intermediate_to_mat4(im) = ChainMat(t, calls)
    /\ calls = <<"translate", "scale">> =>
           (Intermediate_to_mat4(im) # ChainMat(t, <<"scale", "translate">>)
                <=> (t.disp # vec_zero /\ t.scale # one))
    /\ calls = <<"scale", "translate">> =>
           (Intermediate_to_mat4(im) # ChainMat(t, <<"translate", "scale">>)
                <=> (t.disp # vec_zero /\ t.scale # one))

C8_Witness ==
    /\ calls = <<"translate", "scale">>
    /\ t.scale = Rat(2)
    /\ t.disp = Vec3(one, zero, zero)
    /\ Intermediate_to_mat4(im)[4] = <<Rat(2), zero, zero, one>>
    /\ ChainMat(t, <<"scale", "translate">>)[4] = <<one, zero, zero, one>>

Orders ==
    {<<a, b, c>> : a \in {"translate", "scale", "rotate"},
                   b \in {"translate", "scale", "rotate"},
                   c \in {"translate", "scale", "rotate"}}

ThreeStepOrders == {o \in Orders : o[1] # o[2] /\ o[1] # o[3] /\ o[2] # o[3]}

\* the order reproduces to_mat4 for every source transform
Reproduces(order) == \A d \in Others : ChainMat(d, order) = to_mat4(d)

\* C10 as stated: scale, rotate, translate is the only order of the three steps
\* in which the builder reproduces to_mat4 of the source, and every intermediate
\* refers to the unmodified source.
C10_OnlyScaleRotateTranslate ==
    /\ calls = <<"scale", "rotate", "translate">> => Intermediate_to_mat4(im) = to_mat4(t)
    /\ (calls \in ThreeStepOrders /\ Reproduces(calls)) => calls = <<"scale", "rotate", "translate">>
    /\ calls # <<>> => (im.decomposed = t /\ t = prev)

\* C10 amended: the builder reproduces to_mat4 of the source exactly in the orders
\* that end with translate (scale, rotate, translate and rotate, scale,
\* translate), and every intermediate refers to the unmodified source.
C10_TranslateLast ==
    /\ calls \in {<<"scale", "rotate", "translate">>, <<"rotate", "scale", "translate">>}
           => Intermediate_to_mat4(im) = to_mat4(t)
    /\ (calls \in ThreeStepOrders /\ Reproduces(calls)) => calls[3] = "translate"
    /\ calls # <<>> => (im.decomposed = t /\ t = prev)

C10_Witness ==
    /\ calls = <<"scale", "rotate", "translate">>
    /\ t = Decomposed(Rat(2), Quat(<<1, 2>>, <<1, 2>>, <<1, 2>>, <<1, 2>>),
                      Vec3(Rat(-1), Rat(2), Rat(3)))
    /\ Intermediate_to_mat4(im) = to_mat4(t)
    /\ Intermediate_to_mat4(im) # ChainMat(t, <<"translate", "rotate", "scale">>)

====
